---- MODULE Spec2Model ----
(***************************************************************************)
(* Assessment grading and content-rating aggregation of the learning       *)
(* platform's REST API (server/routes.ts) over its data-access layer       *)
(* (server/storage.ts, DatabaseStorage) and schema (shared/schema.ts).     *)
(*                                                                         *)
(* Every handler is an async function: it runs synchronously up to each    *)
(* `await` of a database statement, so one action of the model is one      *)
(* database statement together with the synchronous code around it, and    *)
(* the statements of different requests interleave freely.                 *)
(***************************************************************************)
EXTENDS Integers, Sequences, FiniteSets, TLC

(***************************************************************************)
(* Bounds of the model.                                                    *)
(***************************************************************************)
MaxShort == 1        \* question sequences of every length 0..MaxShort are enumerated
MaxLong == 40        \* length of the one long assessment (every correctAnswer 0)
MaxAttemptReqs == 2  \* attempt submissions per behaviour; those after the first repeat its answers
MaxRateReqs == 2     \* rating submissions per behaviour
MaxSessions == 2     \* rows of the study_sessions table
MaxClock == 2        \* the clock runs from 0 to MaxClock days
MaxProfileReqs == 2  \* profile submissions per behaviour

Users == {"u1", "u2"}
AssessmentIds == {1}   \* ids are handed out in order, from 1
ContentIds == {1, 2}
\* the content the behaviours with one content are about
FirstContent == {1}

(***************************************************************************)
(* JavaScript values that cross the handlers: numbers, strings, undefined  *)
(* (an absent body field, or an index past the end of an array), null and  *)
(* NaN, as tagged records so that values of different types compare.       *)
(***************************************************************************)
Num(k) == [t |-> "number", v |-> k]
Str(k) == [t |-> "string", v |-> k]
Undefined == [t |-> "undefined", v |-> 0]
Null == [t |-> "null", v |-> 0]
NaN == [t |-> "NaN", v |-> 0]

\* a === b: same type and same value, and NaN equals nothing
StrictEquals(a, b) == a.t # "NaN" /\ b.t # "NaN" /\ a = b

(***************************************************************************)
(* IEEE-754 binary64 arithmetic, as far as line 398 of routes.ts needs it: *)
(* a non-negative double is bits/2^frac with `bits` a little-endian bit    *)
(* sequence of at most 53 significant bits.                                *)
(***************************************************************************)
MantissaBits == 53
FNaN == [nan |-> TRUE, bits |-> <<>>, frac |-> 0]

RECURSIVE Reverse(_)
Reverse(s) == IF s = <<>> THEN <<>> ELSE Append(Reverse(Tail(s)), Head(s))

RECURSIVE Inc(_)
Inc(b) == IF b = <<>> THEN <<1>>
          ELSE IF Head(b) = 0 THEN <<1>> \o Tail(b)
          ELSE <<0>> \o Inc(Tail(b))

RECURSIVE MulSmall(_, _, _)
MulSmall(b, c, carry) ==
    IF b = <<>>
    THEN IF carry = 0 THEN <<>> ELSE <<carry % 2>> \o MulSmall(<<>>, c, carry \div 2)
    ELSE LET v == Head(b) * c + carry
         IN <<v % 2>> \o MulSmall(Tail(b), c, v \div 2)

RECURSIVE BitsToInt(_)
BitsToInt(b) == IF b = <<>> THEN 0 ELSE Head(b) + 2 * BitsToInt(Tail(b))

RECURSIVE IntToBits(_)
IntToBits(k) == IF k = 0 THEN <<>> ELSE <<k % 2>> \o IntToBits(k \div 2)

\* round an exact dyadic to 53 significant bits, ties to even
RoundToDouble(x) ==
    LET len == Len(x.bits)
        k == len - MantissaBits
    IN IF k <= 0 THEN x
       ELSE LET kept == SubSeq(x.bits, k + 1, len)
                guard == x.bits[k]
                sticky == \E i \in 1..(k - 1) : x.bits[i] = 1
                up == guard = 1 /\ (sticky \/ kept[1] = 1)
            IN [nan |-> FALSE, bits |-> IF up THEN Inc(kept) ELSE kept, frac |-> x.frac - k]

\* long division r/n: quotient bits, most significant first, up to 53 significant bits
RECURSIVE DivBits(_, _, _, _, _)
DivBits(r, n, acc, sig, pos) ==
    IF sig = MantissaBits \/ (r = 0 /\ sig > 0)
    THEN [acc |-> acc, rem |-> r, frac |-> pos]
    ELSE LET d == 2 * r
             bit == IF d >= n THEN 1 ELSE 0
         IN DivBits(d - bit * n, n,
                    IF sig = 0 /\ bit = 0 THEN acc ELSE Append(acc, bit),
                    IF sig = 0 /\ bit = 0 THEN 0 ELSE sig + 1, pos + 1)

\* s / n for integers s >= 0, n >= 0 (the only division by zero here is 0 / 0)
FDiv(s, n) ==
    IF n = 0 THEN FNaN
    ELSE IF s % n = 0 THEN [nan |-> FALSE, bits |-> IntToBits(s \div n), frac |-> 0]
    ELSE LET q == DivBits(s % n, n, Reverse(IntToBits(s \div n)),
                          Len(IntToBits(s \div n)), 0)
             le == Reverse(q.acc)
             up == 2 * q.rem > n \/ (2 * q.rem = n /\ le[1] = 1)
         IN [nan |-> FALSE, bits |-> IF up THEN Inc(le) ELSE le, frac |-> q.frac]

\* x * c for a double x and a small integer c
FMul(x, c) ==
    IF x.nan THEN FNaN
    ELSE RoundToDouble([nan |-> FALSE, bits |-> MulSmall(x.bits, c, 0), frac |-> x.frac])

\* Math.round: the nearest integer, a tie going up; NaN stays NaN
MathRound(x) ==
    IF x.nan THEN NaN
    ELSE LET len == Len(x.bits)
             int == IF len > x.frac THEN BitsToInt(SubSeq(x.bits, x.frac + 1, len)) ELSE 0
             half == IF x.frac >= 1 /\ len >= x.frac THEN x.bits[x.frac] ELSE 0
         IN Num(int + half)

\* Percentage without the division by the number of questions
PercentageOfOne(correctAnswers, n) == MathRound(FMul(FDiv(correctAnswers, 1), 100))

\* Math.round((correctAnswers / questions.length) * 100)
Percentage(correctAnswers, n) == MathRound(FMul(FDiv(correctAnswers, n), 100))

(***************************************************************************)
(* Request bodies.  `answers` is whatever the client sent: an array of     *)
(* entries, or nothing at all (undefined).                                 *)
(***************************************************************************)
Arr(s) == [t |-> "array", items |-> s]
NoAnswers == [t |-> "undefined", items |-> <<>>]

RECURSIVE SeqsUpTo(_, _)
SeqsUpTo(S, n) ==
    IF n = 0 THEN {<<>>}
    ELSE LET shorter == SeqsUpTo(S, n - 1)
         IN shorter \cup {Append(s, x) : s \in {q \in shorter : Len(q) = n - 1}, x \in S}

Options == {Num(0), Num(1)}
Entries == Options \cup {Str(0)}     \* Str(0): an entry that is no option index

Question(c) == [correctAnswer |-> c]
ShortQuestions == {[i \in 1..Len(s) |-> Question(s[i])] : s \in SeqsUpTo(Options, MaxShort)}
LongQuestions == [i \in 1..MaxLong |-> Question(Num(0))]
QuestionPool == ShortQuestions \cup {LongQuestions}

\* answers to the long assessment: the first k right, the rest wrong, for the
\* upper half of the scores
LongAnswers ==
    {Arr([i \in 1..MaxLong |-> IF i <= k THEN Num(0) ELSE Num(1)]) : k \in (MaxLong \div 2)..MaxLong}
\* every array of up to MaxShort entries, the longest ones also with one entry
\* more, and a body without answers
ShortAnswers ==
    {Arr(s) : s \in SeqsUpTo(Entries, MaxShort)}
    \cup {Arr(Append(s, Num(0))) : s \in {q \in SeqsUpTo(Entries, MaxShort) : Len(q) = MaxShort}}
    \cup {NoAnswers}
AnswerPool(questions) == IF Len(questions) > MaxShort THEN LongAnswers ELSE ShortAnswers
TimeSpentPool == {Num(30)}

(***************************************************************************)
(* State: the tables of shared/schema.ts that the two fragments touch, and *)
(* the requests in flight with the locals of their handlers.               *)
(***************************************************************************)
VARIABLES
    assessments,      \* assessments table: id -> row, for the ids inserted so far
    attempts,         \* assessment_attempts table, in insertion order
    activity,         \* user_activity table, in insertion order
    attemptReqs,      \* POST /api/assessments/:assessmentId/attempt requests
    content,          \* content table: id -> row
    ratings,          \* content_ratings table, in insertion order
    rateReqs,         \* POST /api/content/:contentId/rate requests
    studySessions,    \* study_sessions table, in insertion order
    now,              \* the clock, in days
    analyticsReqs,    \* GET /api/analytics requests
    contentOp,        \* the last PUT or DELETE /api/content/:contentId and its response
    profiles,         \* user_profiles table, in insertion order
    profileReqs       \* POST /api/profile requests

\* the variables that no step of the grading or of the rating touches
elsewhere == <<studySessions, now, analyticsReqs, contentOp, profiles, profileReqs>>

gradeVars == <<assessments, attempts, attemptReqs, elsewhere>>
rateVars == <<content, ratings, rateReqs, elsewhere>>
vars == <<assessments, attempts, activity, attemptReqs, content, ratings, rateReqs,
          studySessions, now, analyticsReqs, contentOp, profiles, profileReqs>>

AttemptReqIds == 1..MaxAttemptReqs

RateReqIds == 1..MaxRateReqs

\* a request that has not arrived yet; the fields are the handler's locals
IdleAttemptReq ==
    [pc |-> "idle", user |-> "", assessmentId |-> 0, answers |-> NoAnswers,
     timeSpent |-> Undefined, score |-> 0, percentage |-> Undefined,
     status |-> 0, error |-> "", attempt |-> 0]

\* a rating request that has not arrived yet; avgRating and count are `result[0]`.
\* pred and onLive record the arrival for the properties: the requests that
\* were over by then, and whether the content existed.
IdleRateReq ==
    [pc |-> "idle", user |-> "", contentId |-> 0, rating |-> Undefined,
     review |-> Undefined, avgRating |-> Null, count |-> 0,
     status |-> 0, error |-> "", pred |-> {}, onLive |-> FALSE]

\* a content id without a row; `file` tells whether the uploaded file is on disk
NoContent ==
    [live |-> FALSE, uploadedBy |-> "", title |-> Undefined, rating |-> 0, ratingCount |-> 0,
     file |-> FALSE]

AnalyticsReqIds == {1, 2}   \* two analytics requests of one user, one after the other

ProfileReqIds == 1..MaxProfileReqs

\* the object getUserAnalytics returns, as far as the rollup is specified
NoRollup == [studyStreak |-> 0, totalStudyTime |-> 0, avgScore |-> 0, bestScore |-> 0]

\* an analytics request that has not arrived yet: `sessions` is the number of
\* study_sessions rows the first select saw, `today` the clock of the fold
IdleAnalyticsReq ==
    [pc |-> "idle", user |-> "", sessions |-> 0, attempts |-> 0, today |-> 0,
     status |-> 0, result |-> NoRollup]

\* a profile request that has not arrived yet: `existingProfile` is what the
\* read returned
IdleProfileReq ==
    [pc |-> "idle", user |-> "", bodyUserId |-> "", existingProfile |-> FALSE, status |-> 0]

NoContentOp == [op |-> "", user |-> "", contentId |-> 0, status |-> 0]

\* the tables and requests outside grading and rating, empty
InitElsewhere ==
    /\ studySessions = <<>>
    /\ now = 0
    /\ analyticsReqs = [r \in AnalyticsReqIds |-> IdleAnalyticsReq]
    /\ contentOp = NoContentOp
    /\ profiles = <<>>
    /\ profileReqs = [r \in ProfileReqIds |-> IdleProfileReq]

Init ==
    /\ InitElsewhere
    /\ assessments = <<>>
    /\ attempts = <<>>
    /\ activity = <<>>
    /\ attemptReqs = [r \in AttemptReqIds |-> IdleAttemptReq]
    /\ content = [c \in ContentIds |-> NoContent]
    /\ ratings = <<>>
    /\ rateReqs = [r \in RateReqIds |-> IdleRateReq]

\* requests are numbered in their order of arrival
NextToArrive(reqs, r) ==
    reqs[r].pc = "idle" /\ (IF r = 1 THEN TRUE ELSE reqs[r - 1].pc # "idle")

\* the principal of a request without an authenticated user
Anonymous == ""

\* requireAuth that lets every request through
RequireAuthOpen(principal) == TRUE

\* requireAuth (routes.ts 57-62): next() only with an authenticated user
RequireAuth(principal) == principal # Anonymous

\* whoever can send a request
Principals == Users \cup {Anonymous}

(***************************************************************************)
(* POST /api/assessments: the body is stored as sent.  The questions are   *)
(* drawn from arrays of questions that carry a correctAnswer index; of the *)
(* row only the questions column is kept, no handler here reads another.   *)
(***************************************************************************)
PostAssessment(questions) ==
    /\ Len(assessments) + 1 \in AssessmentIds
    /\ assessments' = Append(assessments, [questions |-> questions])
    /\ UNCHANGED <<attempts, activity, attemptReqs, rateVars>>

\* the assessments table has a row with that id
AssessmentExists(id) == id \in 1..Len(assessments)

\* what `!assessment` tests: no row came back
NoAssessment == [found |-> FALSE, questions |-> <<>>]

\* GetAssessmentById that answers an unknown id with an assessment without questions
GetAssessmentByIdEmpty(id) ==
    [found |-> TRUE, questions |-> IF AssessmentExists(id) THEN assessments[id].questions ELSE <<>>]

\* storage.getAssessmentById: the row with that id, or undefined
GetAssessmentById(id) ==
    IF AssessmentExists(id)
    THEN [found |-> TRUE, questions |-> assessments[id].questions]
    ELSE NoAssessment

(***************************************************************************)
(* Grading, routes.ts 387-398.                                             *)
(***************************************************************************)
\* GetIndex with the index taken one-based
GetIndexOneBased(answers, index) ==
    IF index + 1 < Len(answers.items) THEN answers.items[index + 2] ELSE Undefined

\* answers[index] on an array: undefined past the end
GetIndex(answers, index) ==
    IF index < Len(answers.items) THEN answers.items[index + 1] ELSE Undefined

\* answers[index] on undefined or null raises TypeError
IndexThrows(answers) == answers.t \in {"undefined", "null"}

\* ForEachCount that takes an absent answer for a right one
RECURSIVE ForEachCountMissingRight(_, _, _)
ForEachCountMissingRight(questions, answers, index) ==
    IF index >= Len(questions) THEN 0
    ELSE (IF \/ index >= Len(answers.items)
             \/ StrictEquals(GetIndex(answers, index), questions[index + 1].correctAnswer)
          THEN 1 ELSE 0)
         + ForEachCountMissingRight(questions, answers, index + 1)

\* questions.forEach((question, index) => { if (answers[index] === question.correctAnswer) correctAnswers++ })
RECURSIVE ForEachCount(_, _, _)
ForEachCount(questions, answers, index) ==
    IF index >= Len(questions) THEN 0
    ELSE (IF StrictEquals(GetIndex(answers, index), questions[index + 1].correctAnswer)
          THEN 1 ELSE 0)
         + ForEachCount(questions, answers, index + 1)

\* res.status(s).json(..): the handler is over
Respond(req, s, e) == [req EXCEPT !.pc = "done", !.status = s, !.error = e]

\* routes.ts 378-407: requireAuth, then read the assessment, grade, and issue
\* the insert of the attempt
AttemptGetAssessment(r, u, id, answers, timeSpent) ==
    /\ NextToArrive(attemptReqs, r)
    /\ LET req == [IdleAttemptReq EXCEPT !.user = u, !.assessmentId = id,
                                         !.answers = answers, !.timeSpent = timeSpent]
           assessment == GetAssessmentById(id)
       IN IF ~RequireAuth(u)
          THEN attemptReqs' = [attemptReqs EXCEPT ![r] = Respond(req, 401, "")]
          ELSE IF ~assessment.found
          THEN /\ answers \in AnswerPool(<<>>)
               /\ attemptReqs' = [attemptReqs EXCEPT ![r] = Respond(req, 404, "")]
          ELSE LET questions == assessment.questions
                   n == Len(questions)
               IN /\ answers \in AnswerPool(questions)
                  /\ IF n > 0 /\ IndexThrows(answers)
                     THEN attemptReqs' = [attemptReqs EXCEPT ![r] = Respond(req, 500, "TypeError")]
                     ELSE LET correctAnswers == ForEachCount(questions, answers, 0)
                          IN attemptReqs' = [attemptReqs EXCEPT ![r] =
                                 [req EXCEPT !.pc = "createAttempt",
                                             !.score = correctAnswers,
                                             !.percentage = Percentage(correctAnswers, n)]]
    /\ UNCHANGED <<assessments, attempts, activity, rateVars>>

\* the assessment_attempts columns (schema.ts 116-125): answers NOT NULL,
\* score and percentage integer NOT NULL, time_spent integer
IsInteger(x) == x.t = "number"
AttemptRowAccepted(req) ==
    /\ req.answers.t = "array"
    /\ IsInteger(req.percentage)
    /\ (IsInteger(req.timeSpent) \/ req.timeSpent.t \in {"undefined", "null"})

\* AttemptInsert that stores the row twice
AttemptInsertTwice(r) ==
    /\ attemptReqs[r].pc = "createAttempt"
    /\ LET req == attemptReqs[r]
           row == [assessmentId |-> req.assessmentId, userId |-> req.user,
                   answers |-> req.answers, score |-> req.score,
                   percentage |-> req.percentage.v, timeSpent |-> req.timeSpent]
       IN IF AttemptRowAccepted(req)
          THEN /\ attempts' = attempts \o <<row, row>>
               /\ attemptReqs' = [attemptReqs EXCEPT ![r] =
                       [req EXCEPT !.pc = "logActivity", !.attempt = Len(attempts) + 1]]
          ELSE /\ attemptReqs' = [attemptReqs EXCEPT ![r] = Respond(req, 500, "rejected")]
               /\ UNCHANGED attempts
    /\ UNCHANGED <<assessments, activity, rateVars>>

\* AttemptInsert as an upsert keyed on (assessment, user): a repeated
\* submission takes the place of the earlier row
AttemptInsertOverwrite(r) ==
    /\ attemptReqs[r].pc = "createAttempt"
    /\ LET req == attemptReqs[r]
           row == [assessmentId |-> req.assessmentId, userId |-> req.user,
                   answers |-> req.answers, score |-> req.score,
                   percentage |-> req.percentage.v, timeSpent |-> req.timeSpent]
           same == {k \in 1..Len(attempts) : /\ attempts[k].assessmentId = req.assessmentId
                                              /\ attempts[k].userId = req.user}
       IN IF ~AttemptRowAccepted(req)
          THEN /\ attemptReqs' = [attemptReqs EXCEPT ![r] = Respond(req, 500, "rejected")]
               /\ UNCHANGED attempts
          ELSE IF same # {}
          THEN /\ attempts' = [k \in 1..Len(attempts) |-> IF k \in same THEN row ELSE attempts[k]]
               /\ attemptReqs' = [attemptReqs EXCEPT ![r] =
                       [req EXCEPT !.pc = "logActivity", !.attempt = CHOOSE k \in same : TRUE]]
          ELSE /\ attempts' = Append(attempts, row)
               /\ attemptReqs' = [attemptReqs EXCEPT ![r] =
                       [req EXCEPT !.pc = "logActivity", !.attempt = Len(attempts) + 1]]
    /\ UNCHANGED <<assessments, activity, rateVars>>

\* storage.createAssessmentAttempt (storage.ts 367-373) as the database executes it
AttemptInsert(r) ==
    /\ attemptReqs[r].pc = "createAttempt"
    /\ LET req == attemptReqs[r]
       IN IF AttemptRowAccepted(req)
          THEN /\ attempts' = Append(attempts,
                       [assessmentId |-> req.assessmentId, userId |-> req.user,
                        answers |-> req.answers, score |-> req.score,
                        percentage |-> req.percentage.v, timeSpent |-> req.timeSpent])
               /\ attemptReqs' = [attemptReqs EXCEPT ![r] =
                       [req EXCEPT !.pc = "logActivity", !.attempt = Len(attempts) + 1]]
          ELSE /\ attemptReqs' = [attemptReqs EXCEPT ![r] = Respond(req, 500, "rejected")]
               /\ UNCHANGED attempts
    /\ UNCHANGED <<assessments, activity, rateVars>>

\* storage.createUserActivity (routes.ts 410-417), then res.json(attempt)
AttemptLogActivity(r) ==
    /\ attemptReqs[r].pc = "logActivity"
    /\ activity' = Append(activity,
            [userId |-> attemptReqs[r].user, activityType |-> "assessment_completion",
             score |-> attemptReqs[r].percentage.v])
    /\ attemptReqs' = [attemptReqs EXCEPT ![r] = Respond(attemptReqs[r], 200, "")]
    /\ UNCHANGED <<assessments, attempts, rateVars>>

\* AttemptStoreFault that takes the attempt back when the activity write fails
AttemptStoreFaultRollback(r) ==
    /\ attemptReqs[r].pc \in {"createAttempt", "logActivity"}
    /\ attemptReqs' = [attemptReqs EXCEPT ![r] = Respond(attemptReqs[r], 500, "fault")]
    /\ attempts' = IF attemptReqs[r].pc = "logActivity"
                   THEN SubSeq(attempts, 1, attemptReqs[r].attempt - 1)
                        \o SubSeq(attempts, attemptReqs[r].attempt + 1, Len(attempts))
                   ELSE attempts
    /\ UNCHANGED <<assessments, activity, rateVars>>

\* the store fails the statement a request awaits (connectivity): the catch answers 500
AttemptStoreFault(r) ==
    /\ attemptReqs[r].pc \in {"createAttempt", "logActivity"}
    /\ attemptReqs' = [attemptReqs EXCEPT ![r] = Respond(attemptReqs[r], 500, "fault")]
    /\ UNCHANGED <<assessments, attempts, activity, rateVars>>

NextGrade ==
    \/ \E q \in QuestionPool : PostAssessment(q)
    \/ \E r \in AttemptReqIds, u \in Users, id \in AssessmentIds, ts \in TimeSpentPool :
          \E a \in (IF r = 1 THEN ShortAnswers \cup LongAnswers ELSE {attemptReqs[1].answers}) :
            AttemptGetAssessment(r, u, id, a, ts)
    \/ \E r \in AttemptReqIds : AttemptInsert(r)
    \/ \E r \in AttemptReqIds : AttemptLogActivity(r)
    \/ \E r \in AttemptReqIds : AttemptStoreFault(r)

SpecGrade == Init /\ [][NextGrade]_vars

(***************************************************************************)
(* Content and its ratings.                                                *)
(***************************************************************************)
RatingPool == {Num(4), Num(5)}
ReviewPool == {Undefined, Str(1)}
\* rating values a body can carry that are no rating: none, a string, 7
MalformedRatings == {Undefined, Str(0), Num(7)}

\* bodies of PUT /api/content/:contentId, an absent key being undefined: an
\* empty one, and one that renames the content and carries rating keys
PutBodies ==
    {[title |-> Undefined, rating |-> Undefined, ratingCount |-> Undefined],
     [title |-> Str(2), rating |-> Num(5), ratingCount |-> Num(9)]}

\* POST /api/content with a valid upload (routes.ts 222-262): storage.createContent
\* inserts the row, rating and rating_count taking their column default 0, and
\* the upload is logged.  No handler here reads user_activity, so the two
\* statements are one step.  The row takes the next id never used before.
PostContent(u) ==
    /\ \E c \in ContentIds :
         /\ content[c] = NoContent
         /\ \A d \in ContentIds : d < c => content[d] # NoContent
         /\ content' = [content EXCEPT ![c] =
                [live |-> TRUE, uploadedBy |-> u, title |-> Str(1), rating |-> 0, ratingCount |-> 0,
                 file |-> TRUE]]
    /\ activity' = Append(activity, [userId |-> u, activityType |-> "content_upload", score |-> 0])
    /\ UNCHANGED <<gradeVars, ratings, rateReqs>>

\* a schema that lets every key of the body through
ContentUpdateSchemaPassthrough(body) == body

\* contentUpdateSchema.safeParse (routes.ts 39-45, 314): a z.object keeps the
\* keys it declares and strips the others; of the declared ones the model
\* carries the title
ContentUpdateSchema(body) ==
    [title |-> body.title, rating |-> Undefined, ratingCount |-> Undefined]

\* storage.updateContent (storage.ts 291-298): set every column the data carries
UpdateContent(row, data) ==
    [row EXCEPT !.title = IF data.title = Undefined THEN @ ELSE data.title,
                !.rating = IF data.rating = Undefined THEN @ ELSE data.rating.v,
                !.ratingCount = IF data.ratingCount = Undefined THEN @ ELSE data.ratingCount.v]

\* an ownership check that only asks for the content to exist
IsUploaderOfAny(u, c) == content[c].live

\* existingContent && existingContent.uploadedBy === req.user!.id
\* (routes.ts 308-309, 337-338)
IsUploader(u, c) == content[c].live /\ content[c].uploadedBy = u

\* the upload of the first content
PostFirstContent(u) == content[1] = NoContent /\ PostContent(u)

\* PUT /api/content/:contentId (routes.ts 298-329) by the authenticated user
\* u: 403 unless u uploaded the content, else the validated body is written.
\* No handler changes uploadedBy, so the verdict of the ownership read stands
\* at the update (which changes no row once the content is deleted), and the
\* two are one step.
PutContent(u, c, body) ==
    /\ RequireAuth(u)
    /\ content' = IF IsUploader(u, c)
                  THEN [content EXCEPT ![c] = UpdateContent(content[c], ContentUpdateSchema(body))]
                  ELSE content
    /\ contentOp' = [op |-> "PUT", user |-> u, contentId |-> c,
                     status |-> IF IsUploader(u, c) THEN 200 ELSE 403]
    /\ UNCHANGED <<assessments, attempts, attemptReqs, activity, ratings, rateReqs,
                   studySessions, now, analyticsReqs, profiles, profileReqs>>

\* DELETE /api/content/:contentId (routes.ts 331-352) by the authenticated
\* user u: 403 unless u uploaded the content, else storage.deleteContent
\* removes the row, its content_ratings rows go with it (on delete cascade),
\* and the file is unlinked
DeleteContent(u, c) ==
    /\ RequireAuth(u)
    /\ IF IsUploader(u, c)
       THEN /\ content' = [content EXCEPT ![c] = [@ EXCEPT !.live = FALSE, !.file = FALSE]]
            /\ ratings' = SelectSeq(ratings, LAMBDA row : row.contentId # c)
       ELSE UNCHANGED <<content, ratings>>
    /\ contentOp' = [op |-> "DELETE", user |-> u, contentId |-> c,
                     status |-> IF IsUploader(u, c) THEN 200 ELSE 403]
    /\ UNCHANGED <<assessments, attempts, attemptReqs, activity, rateReqs,
                   studySessions, now, analyticsReqs, profiles, profileReqs>>

\* the unique indexes schema.ts declares on content_ratings besides the primary
\* key on id, each as its set of columns: there is none
ContentRatingsUnique == {}

\* target of onConflictDoUpdate (storage.ts 310)
ConflictTarget == {"contentId", "userId"}

\* an arbiter index is there whatever the schema declares
ArbiterPresent == TRUE

\* ON CONFLICT (content_id, user_id) needs a unique index on exactly these
\* columns to arbitrate; PostgreSQL rejects the statement otherwise (42P10)
ArbiterInferred == ConflictTarget \in ContentRatingsUnique

\* the columns of content_ratings: content_id references content, rating integer NOT NULL
RatingRowAccepted(c, rating) == c \in ContentIds /\ content[c].live /\ IsInteger(rating)

RatingRow(c, u, rating, review) ==
    [contentId |-> c, userId |-> u, rating |-> rating.v, review |-> review]

\* an upsert that stores a row for every content id
OnConflictDoUpdateEveryContent(rows, c, u, rating, review) ==
    [ok |-> TRUE,
     rows |-> Append(Append(rows, RatingRow(1, u, rating, review)), RatingRow(2, u, rating, review))]

\* the statement without its ON CONFLICT clause: a plain insert
PlainInsert(rows, c, u, rating, review) ==
    IF RatingRowAccepted(c, rating)
    THEN [ok |-> TRUE, rows |-> Append(rows, RatingRow(c, u, rating, review))]
    ELSE [ok |-> FALSE, rows |-> rows]

\* insert .. on conflict (content_id, user_id) do update set rating, review, created_at
\* (storage.ts 306-312) as the database executes it on the table `rows`
OnConflictDoUpdate(rows, c, u, rating, review) ==
    IF ~ArbiterInferred \/ ~RatingRowAccepted(c, rating)
    THEN [ok |-> FALSE, rows |-> rows]
    ELSE IF \E i \in 1..Len(rows) : rows[i].contentId = c /\ rows[i].userId = u
    THEN [ok |-> TRUE,
          rows |-> [i \in 1..Len(rows) |->
                      IF rows[i].contentId = c /\ rows[i].userId = u
                      THEN [rows[i] EXCEPT !.rating = rating.v, !.review = review]
                      ELSE rows[i]]]
    ELSE [ok |-> TRUE, rows |-> Append(rows, RatingRow(c, u, rating, review))]

RECURSIVE SumRatings(_, _)
SumRatings(rows, c) ==
    IF rows = <<>> THEN 0
    ELSE (IF Head(rows).contentId = c THEN Head(rows).rating ELSE 0) + SumRatings(Tail(rows), c)

CountRatings(rows, c) == Cardinality({i \in 1..Len(rows) : rows[i].contentId = c})

\* Math.round(result[0].avgRating): AVG is exact, NULL over no rows, and
\* Math.round(null) is 0
RoundAvg(sum, count) == IF count = 0 THEN 0 ELSE (2 * sum + count) \div (2 * count)

\* the request arrives: requireAuth, then rateContent issues its first
\* statement (routes.ts 269-272)
RateArrive(r, u, c, rating, review) ==
    /\ NextToArrive(rateReqs, r)
    /\ rateReqs' = [rateReqs EXCEPT ![r] =
           IF RequireAuth(u)
           THEN [IdleRateReq EXCEPT !.pc = "upsert", !.user = u, !.contentId = c,
                                    !.rating = rating, !.review = review,
                                    !.pred = {q \in RateReqIds : rateReqs[q].pc = "done"},
                                    !.onLive = content[c].live]
           ELSE Respond([IdleRateReq EXCEPT !.contentId = c, !.rating = rating,
                                            !.review = review], 401, "")]
    /\ UNCHANGED <<gradeVars, activity, content, ratings>>

\* storage.rateContent (storage.ts 304-332): the database executes the statement
\* request r awaits.  A rejected statement rejects rateContent and the handler
\* answers 500 (routes.ts 274-276); after the third the handler answers 200.
\* With the indexes schema.ts declares, the first statement is always rejected.
RateContentStatement(r) ==
    LET req == rateReqs[r]
    IN /\ req.pc \in {"upsert", "aggregate", "persist"}
       /\ CASE req.pc = "upsert" ->
                 LET res == OnConflictDoUpdate(ratings, req.contentId, req.user,
                                               req.rating, req.review)
                 IN /\ ratings' = res.rows
                    /\ rateReqs' = [rateReqs EXCEPT ![r] =
                          IF res.ok THEN [req EXCEPT !.pc = "aggregate"]
                          ELSE Respond(req, 500, "rejected")]
                    /\ UNCHANGED content
            [] req.pc = "aggregate" ->
                 /\ rateReqs' = [rateReqs EXCEPT ![r] =
                       [req EXCEPT !.pc = "persist",
                                   !.avgRating = Num(SumRatings(ratings, req.contentId)),
                                   !.count = CountRatings(ratings, req.contentId)]]
                 /\ UNCHANGED <<content, ratings>>
            [] req.pc = "persist" ->
                 /\ content' = [c \in ContentIds |->
                       IF c = req.contentId /\ content[c].live
                       THEN [content[c] EXCEPT !.rating = RoundAvg(req.avgRating.v, req.count),
                                               !.ratingCount = req.count]
                       ELSE content[c]]
                 /\ rateReqs' = [rateReqs EXCEPT ![r] = Respond(req, 200, "")]
                 /\ UNCHANGED ratings
       /\ UNCHANGED <<gradeVars, activity>>

\* the store fails the statement a rating request awaits (connectivity)
RateStoreFault(r) ==
    /\ rateReqs[r].pc \in {"upsert", "aggregate", "persist"}
    /\ rateReqs' = [rateReqs EXCEPT ![r] = Respond(rateReqs[r], 500, "fault")]
    /\ UNCHANGED <<gradeVars, activity, content, ratings>>

NextRate ==
    \/ \E u \in Users : PostFirstContent(u)
    \/ \E r \in RateReqIds, u \in Users, c \in FirstContent, rating \in RatingPool,
          review \in ReviewPool : RateArrive(r, u, c, rating, review)
    \/ \E r \in RateReqIds : RateContentStatement(r)
    \/ \E r \in RateReqIds : RateStoreFault(r)

SpecRate == Init /\ [][NextRate]_vars

\* content uploaded by u1 with its updates, and rating requests of u2 whose
\* rating is whatever the body carried
NextContent ==
    \/ PostFirstContent("u1")
    \/ \E u \in Users, c \in FirstContent, body \in PutBodies : PutContent(u, c, body)
    \/ \E r \in RateReqIds, c \in FirstContent, rating \in MalformedRatings \cup {Num(4)} :
          RateArrive(r, "u2", c, rating, Undefined)
    \/ \E r \in RateReqIds : RateContentStatement(r)
    \/ \E r \in RateReqIds : RateStoreFault(r)

SpecContent == Init /\ [][NextContent]_vars

(***************************************************************************)
(* Study sessions and the analytics rollup.  The clock counts days.        *)
(***************************************************************************)
\* yesterday.setDate(today.getDate() - 1): one day back (clock in UTC)
Day == 1

\* bodies of POST /api/study-sessions: a duration or none, and a userId key or
\* none ("")
SessionBodies == [duration : {Num(30), Num(90), Undefined}, userId : {"", "u2"}]

\* the sessions the analytics requests fold: 30 and 90 minutes of u1, 30 of u2
PlainSessions ==
    {<<"u1", [duration |-> Num(30), userId |-> ""]>>,
     <<"u1", [duration |-> Num(90), userId |-> ""]>>,
     <<"u2", [duration |-> Num(30), userId |-> ""]>>}

\* { userId: req.user!.id, ...req.body } (routes.ts 577-580): the keys of the
\* body come last and win
SessionData(u, body) ==
    [userId |-> IF body.userId = "" THEN u ELSE body.userId, duration |-> body.duration]

\* the study_sessions columns (schema.ts 127-135): user_id references users,
\* duration integer NOT NULL
SessionRowAccepted(data) == data.userId \in Users /\ IsInteger(data.duration)

\* PostStudySession that keeps one row per user: a later session takes the
\* place of the user's earlier one
PostStudySessionReplacing(u, body) ==
    /\ RequireAuth(u)
    /\ Len(studySessions) < MaxSessions
    /\ LET data == SessionData(u, body)
           row == [userId |-> data.userId, duration |-> data.duration.v,
                   createdAt |-> now, by |-> u]
           same == {i \in 1..Len(studySessions) : studySessions[i].userId = data.userId}
       IN IF SessionRowAccepted(data)
          THEN /\ studySessions' =
                     IF same = {} THEN Append(studySessions, row)
                     ELSE [i \in 1..Len(studySessions) |->
                             IF i \in same THEN row ELSE studySessions[i]]
               /\ activity' = Append(activity,
                       [userId |-> u, activityType |-> "study_session", score |-> 0])
          ELSE UNCHANGED <<studySessions, activity>>
    /\ UNCHANGED <<assessments, attempts, attemptReqs, content, ratings, rateReqs,
                   now, analyticsReqs, contentOp, profiles, profileReqs>>

\* POST /api/study-sessions (routes.ts 575-596) by the authenticated user u:
\* storage.createStudySession, then the activity entry; a rejected insert ends
\* in the catch and writes nothing.  Neither statement reads anything, so the
\* two are one step.  `by` is not a column: it records the requester.
PostStudySession(u, body) ==
    /\ RequireAuth(u)
    /\ Len(studySessions) < MaxSessions
    /\ LET data == SessionData(u, body)
       IN IF SessionRowAccepted(data)
          THEN /\ studySessions' = Append(studySessions,
                       [userId |-> data.userId, duration |-> data.duration.v,
                        createdAt |-> now, by |-> u])
               /\ activity' = Append(activity,
                       [userId |-> u, activityType |-> "study_session", score |-> 0])
          ELSE UNCHANGED <<studySessions, activity>>
    /\ UNCHANGED <<assessments, attempts, attemptReqs, content, ratings, rateReqs,
                   now, analyticsReqs, contentOp, profiles, profileReqs>>

\* a day passes
Tick ==
    /\ now < MaxClock
    /\ now' = now + 1
    /\ UNCHANGED <<assessments, attempts, activity, attemptReqs, content, ratings, rateReqs,
                   studySessions, analyticsReqs, contentOp, profiles, profileReqs>>

\* select .. where user_id = userId
RowsOfUser(rows, u) == SelectSeq(rows, LAMBDA row : row.userId = u)

RECURSIVE SumDuration(_)
SumDuration(sessions) ==
    IF sessions = <<>> THEN 0 ELSE Head(sessions).duration + SumDuration(Tail(sessions))

RECURSIVE SumPercentage(_)
SumPercentage(atts) ==
    IF atts = <<>> THEN 0 ELSE Head(atts).percentage + SumPercentage(Tail(atts))

RECURSIVE MaxPercentage(_)
MaxPercentage(atts) ==
    IF Len(atts) = 1 THEN Head(atts).percentage
    ELSE LET rest == MaxPercentage(Tail(atts))
         IN IF Head(atts).percentage > rest THEN Head(atts).percentage ELSE rest

\* GetUserAnalytics whose streak looks at no date
GetUserAnalyticsAnySession(sessions, atts, today) ==
    [studyStreak |-> IF Len(sessions) > 0 THEN 7 ELSE 0,
     totalStudyTime |-> SumDuration(sessions),
     avgScore |-> IF Len(atts) > 0
                  THEN MathRound(FDiv(SumPercentage(atts), Len(atts))).v ELSE 0,
     bestScore |-> IF Len(atts) > 0 THEN MaxPercentage(atts) ELSE 0]

\* GetUserAnalytics whose mean is cut, not rounded
GetUserAnalyticsFloorMean(sessions, atts, today) ==
    [studyStreak |-> IF Len(SelectSeq(sessions, LAMBDA s : s.createdAt >= today - Day)) > 0
                     THEN 7 ELSE 0,
     totalStudyTime |-> SumDuration(sessions),
     avgScore |-> IF Len(atts) > 0 THEN SumPercentage(atts) \div Len(atts) ELSE 0,
     bestScore |-> IF Len(atts) > 0 THEN MaxPercentage(atts) ELSE 0]

\* the fold of storage.getUserAnalytics (storage.ts 466-486) over the rows the
\* two selects returned, at the time `today`
GetUserAnalytics(sessions, atts, today) ==
    LET yesterday == today - Day
        recentSessions == SelectSeq(sessions, LAMBDA s : s.createdAt >= yesterday)
    IN [studyStreak |-> IF Len(recentSessions) > 0 THEN 7 ELSE 0,
        totalStudyTime |-> SumDuration(sessions),
        avgScore |-> IF Len(atts) > 0
                     THEN MathRound(FDiv(SumPercentage(atts), Len(atts))).v ELSE 0,
        bestScore |-> IF Len(atts) > 0 THEN MaxPercentage(atts) ELSE 0]

\* GET /api/analytics (routes.ts 555-562) by principal u: requireAuth, then the
\* first select of getUserAnalytics (storage.ts 454-458)
AnalyticsReadSessions(r, u) ==
    /\ NextToArrive(analyticsReqs, r)
    /\ analyticsReqs' = [analyticsReqs EXCEPT ![r] =
           IF RequireAuth(u)
           THEN [IdleAnalyticsReq EXCEPT !.pc = "attempts", !.user = u,
                                         !.sessions = Len(studySessions)]
           ELSE [IdleAnalyticsReq EXCEPT !.pc = "done", !.user = u, !.status = 401]]
    /\ UNCHANGED <<assessments, attempts, activity, attemptReqs, content, ratings, rateReqs,
                   studySessions, now, contentOp, profiles, profileReqs>>

\* AnalyticsReadAttempts that logs the request in user_activity
AnalyticsReadAttemptsLogged(r) ==
    /\ analyticsReqs[r].pc = "attempts"
    /\ LET req == analyticsReqs[r]
       IN analyticsReqs' = [analyticsReqs EXCEPT ![r] =
              [req EXCEPT !.pc = "done", !.status = 200,
                          !.attempts = Len(attempts), !.today = now,
                          !.result = GetUserAnalytics(
                              RowsOfUser(SubSeq(studySessions, 1, req.sessions), req.user),
                              RowsOfUser(attempts, req.user), now)]]
    /\ activity' = Append(activity,
            [userId |-> analyticsReqs[r].user, activityType |-> "analytics", score |-> 0])
    /\ UNCHANGED <<assessments, attempts, attemptReqs, content, ratings, rateReqs,
                   studySessions, now, contentOp, profiles, profileReqs>>

\* the second select (storage.ts 461-465), the fold and the response
AnalyticsReadAttempts(r) ==
    /\ analyticsReqs[r].pc = "attempts"
    /\ LET req == analyticsReqs[r]
       IN analyticsReqs' = [analyticsReqs EXCEPT ![r] =
              [req EXCEPT !.pc = "done", !.status = 200,
                          !.attempts = Len(attempts), !.today = now,
                          !.result = GetUserAnalytics(
                              RowsOfUser(SubSeq(studySessions, 1, req.sessions), req.user),
                              RowsOfUser(attempts, req.user), now)]]
    /\ UNCHANGED <<assessments, attempts, activity, attemptReqs, content, ratings, rateReqs,
                   studySessions, now, contentOp, profiles, profileReqs>>

\* the attempts stored before the analytics requests: submissions to the long
\* assessment with these scores by these users, in this order, over and over
StoredScores == <<32, 36, 28, 23, 40>>
StoredUsers == <<"u1", "u1", "u1", "u2", "u2">>

StoredAttempt(i) ==
    LET k == StoredScores[((i - 1) % Len(StoredScores)) + 1]
        u == StoredUsers[((i - 1) % Len(StoredUsers)) + 1]
    IN [assessmentId |-> 1, userId |-> u,
        answers |-> Arr([j \in 1..MaxLong |-> IF j <= k THEN Num(0) ELSE Num(1)]),
        score |-> k, percentage |-> Percentage(k, MaxLong).v, timeSpent |-> Num(30)]

\* the long assessment and the first k of these graded submissions to it
InitAnalytics ==
    /\ InitElsewhere
    /\ assessments = <<[questions |-> LongQuestions]>>
    /\ \E k \in 0..Len(StoredScores) :
          /\ attempts = [i \in 1..k |-> StoredAttempt(i)]
          /\ activity = [i \in 1..k |->
                 [userId |-> StoredAttempt(i).userId, activityType |-> "assessment_completion",
                  score |-> StoredAttempt(i).percentage]]
    /\ attemptReqs = [r \in AttemptReqIds |-> IdleAttemptReq]
    /\ content = [c \in ContentIds |-> NoContent]
    /\ ratings = <<>>
    /\ rateReqs = [r \in RateReqIds |-> IdleRateReq]

NextAnalytics ==
    \/ \E s \in PlainSessions : PostStudySession(s[1], s[2])
    \/ Tick
    \/ \E r \in AnalyticsReqIds :
          \E u \in (IF r = 1 THEN Users
                    ELSE IF analyticsReqs[1].pc = "done" THEN {analyticsReqs[1].user} ELSE {}) :
            AnalyticsReadSessions(r, u)
    \/ \E r \in AnalyticsReqIds : AnalyticsReadAttempts(r)

SpecAnalytics == InitAnalytics /\ [][NextAnalytics]_vars

\* study sessions with whatever the body carries, next to the other writers of
\* the activity log: an upload and one submission to a one-question assessment
NextSessions ==
    \/ \E u \in Users, body \in SessionBodies : PostStudySession(u, body)
    \/ \E u \in Users : PostFirstContent(u)
    \/ PostAssessment(<<Question(Num(0))>>)
    \/ \E u \in Users, ts \in TimeSpentPool :
          AttemptGetAssessment(1, u, 1, Arr(<<Num(0)>>), ts)
    \/ AttemptInsert(1)
    \/ AttemptLogActivity(1)

SpecSessions == Init /\ [][NextSessions]_vars

\* one request to each of the three endpoints, by a user or by nobody
NextAuth ==
    \/ PostAssessment(<<Question(Num(0))>>)
    \/ \E u \in Principals, ts \in TimeSpentPool :
          AttemptGetAssessment(1, u, 1, Arr(<<Num(0)>>), ts)
    \/ AttemptInsert(1)
    \/ AttemptLogActivity(1)
    \/ PostFirstContent("u1")
    \/ \E u \in Principals : RateArrive(1, u, 1, Num(4), Undefined)
    \/ RateContentStatement(1)
    \/ PostStudySession("u1", [duration |-> Num(30), userId |-> ""])
    \/ \E u \in Principals : AnalyticsReadSessions(1, u)
    \/ AnalyticsReadAttempts(1)

SpecAuth == Init /\ [][NextAuth]_vars

\* two contents and the rating requests on them
NextFrame ==
    \/ \E u \in Users : PostContent(u)
    \/ \E r \in RateReqIds, u \in Users, c \in ContentIds :
          RateArrive(r, u, c, Num(4), Undefined)
    \/ \E r \in RateReqIds : RateContentStatement(r)
    \/ \E r \in RateReqIds : RateStoreFault(r)

SpecFrame == Init /\ [][NextFrame]_vars

\* uploads, updates and deletions of content, and one rating request
NextOwnership ==
    \/ \E u \in Users : PostFirstContent(u)
    \/ \E u \in Users, c \in FirstContent, body \in PutBodies : PutContent(u, c, body)
    \/ \E u \in Users, c \in FirstContent : DeleteContent(u, c)
    \/ \E u \in Users, c \in FirstContent, rating \in RatingPool :
          RateArrive(1, u, c, rating, Undefined)
    \/ RateContentStatement(1)

SpecOwnership == Init /\ [][NextOwnership]_vars

(***************************************************************************)
(* POST /api/profile (routes.ts 74-102): three awaited statements.  The     *)
(* body is not validated; of its keys the model keeps userId, "" when the   *)
(* body has none.                                                          *)
(***************************************************************************)
\* the unique indexes schema.ts declares on user_profiles besides the primary
\* key on id, each as its set of columns: there is none (schema.ts 38-50)
UserProfilesUnique == {}

HasProfile(rows, u) == \E i \in 1..Len(rows) : rows[i].userId = u

\* profileData = { userId: req.user!.id, ...req.body } (routes.ts 76-79)
ProfileData(u, bodyUserId) == [userId |-> IF bodyUserId = "" THEN u ELSE bodyUserId]

\* db.insert(userProfiles).values(profile) (storage.ts 161-167): a unique
\* index on user_id would reject a second row of the user
CreateUserProfile(rows, profile) ==
    IF {"userId"} \in UserProfilesUnique /\ HasProfile(rows, profile.userId)
    THEN [ok |-> FALSE, rows |-> rows]
    ELSE [ok |-> TRUE, rows |-> Append(rows, profile)]

\* db.update(userProfiles).set({ ...profile }).where(user_id = userId)
\* (storage.ts 169-176)
UpdateUserProfile(rows, u, bodyUserId) ==
    [i \in 1..Len(rows) |->
        IF rows[i].userId = u /\ bodyUserId # "" THEN [rows[i] EXCEPT !.userId = bodyUserId]
        ELSE rows[i]]

\* storage.getUserProfile (storage.ts 156-159), as the handler tests it
GetUserProfile(rows, u) == HasProfile(rows, u)

\* the request arrives: requireAuth, then the read of the profile is answered
\* (routes.ts 74-81)
ProfileRead(r, u, bodyUserId) ==
    /\ NextToArrive(profileReqs, r)
    /\ RequireAuth(u)
    /\ profileReqs' = [profileReqs EXCEPT ![r] =
           [IdleProfileReq EXCEPT !.pc = "write", !.user = u, !.bodyUserId = bodyUserId,
                                  !.existingProfile = GetUserProfile(profiles, u)]]
    /\ UNCHANGED <<assessments, attempts, attemptReqs, activity, content, ratings, rateReqs,
                   studySessions, now, analyticsReqs, contentOp, profiles>>

\* the update or the insert the read chose (routes.ts 84-88); a rejected
\* insert is answered 500
ProfileWrite(r) ==
    LET req == profileReqs[r]
        res == CreateUserProfile(profiles, ProfileData(req.user, req.bodyUserId))
    IN /\ req.pc = "write"
       /\ IF req.existingProfile
          THEN /\ profiles' = UpdateUserProfile(profiles, req.user, req.bodyUserId)
               /\ profileReqs' = [profileReqs EXCEPT ![r] = [req EXCEPT !.pc = "log"]]
          ELSE /\ profiles' = res.rows
               /\ profileReqs' = [profileReqs EXCEPT ![r] =
                      IF res.ok THEN [req EXCEPT !.pc = "log"]
                      ELSE [req EXCEPT !.pc = "done", !.status = 500]]
       /\ UNCHANGED <<assessments, attempts, attemptReqs, activity, content, ratings, rateReqs,
                      studySessions, now, analyticsReqs, contentOp>>

\* createUserActivity, then the answer (routes.ts 91-98)
ProfileLogActivity(r) ==
    /\ profileReqs[r].pc = "log"
    /\ activity' = Append(activity, [userId |-> profileReqs[r].user,
                                     activityType |-> "profile_update", score |-> 0])
    /\ profileReqs' = [profileReqs EXCEPT ![r] = [@ EXCEPT !.pc = "done", !.status = 200]]
    /\ UNCHANGED <<assessments, attempts, attemptReqs, content, ratings, rateReqs,
                   studySessions, now, analyticsReqs, contentOp, profiles>>

\* bodies with and without a userId key
NextProfile ==
    \/ \E r \in ProfileReqIds, u \in Users, bodyUserId \in {"", "u2"} :
          ProfileRead(r, u, bodyUserId)
    \/ \E r \in ProfileReqIds : ProfileWrite(r)
    \/ \E r \in ProfileReqIds : ProfileLogActivity(r)

SpecProfile == Init /\ [][NextProfile]_vars

(***************************************************************************)
(* Grading claims.                                                         *)
(***************************************************************************)
QuestionsOf(id) == assessments[id].questions

\* the positions of Q that A answers with exactly Q's correctAnswer
Matches(Q, A) == {i \in 0..(Len(Q) - 1) : i < Len(A) /\ A[i + 1] = Q[i + 1].correctAnswer}

\* a / b rounded to the nearest integer, exactly, a tie going up
RoundedQuotient(a, b) == (2 * a + b) \div (2 * b)

\* requests whose handler ran to its end on an assessment that it found, the
\* store answering every statement
Handled(req) == req.pc = "done" /\ req.status \notin {401, 404} /\ req.error # "fault"

\* C1: the score of every stored attempt is the number of positions i < n with
\* i < m and A[i] equal to Q[i].correctAnswer.
C1_ScoreIsMatchCount ==
    \A k \in 1..Len(attempts) :
        attempts[k].score =
            Cardinality(Matches(QuestionsOf(attempts[k].assessmentId), attempts[k].answers.items))

\* a stored attempt with some, but not all, questions right
C1_Witness ==
    \E k \in 1..Len(attempts) :
        /\ 0 < attempts[k].score
        /\ attempts[k].score < Len(QuestionsOf(attempts[k].assessmentId))

\* C2: for n > 0 the stored percentage is round(100 * score / n).
C2_PercentageIsRounded ==
    \A k \in 1..Len(attempts) :
        LET n == Len(QuestionsOf(attempts[k].assessmentId))
        IN n > 0 => attempts[k].percentage = RoundedQuotient(100 * attempts[k].score, n)

\* C3: a submission against an assessment without questions succeeds and
\* stores score 0 and percentage 0.
C3_ZeroQuestionsSucceeds ==
    \A r \in AttemptReqIds :
        LET req == attemptReqs[r]
        IN (Handled(req) /\ req.answers.t = "array" /\ Len(QuestionsOf(req.assessmentId)) = 0)
           => /\ req.status = 200
              /\ req.attempt \in 1..Len(attempts)
              /\ attempts[req.attempt].score = 0
              /\ attempts[req.attempt].percentage = 0

\* C4: when answers and questions differ in length the submission succeeds,
\* and the stored score counts the matching positions below both lengths.
C4_LengthMismatchGraded ==
    \A r \in AttemptReqIds :
        LET req == attemptReqs[r]
        IN (/\ Handled(req)
            /\ req.answers.t = "array"
            /\ Len(req.answers.items) # Len(QuestionsOf(req.assessmentId)))
           => /\ req.status = 200
              /\ req.attempt \in 1..Len(attempts)
              /\ attempts[req.attempt].score =
                     Cardinality(Matches(QuestionsOf(req.assessmentId), req.answers.items))

\* C5: no request on an existing assessment ends in an error raised by grading,
\* whatever its answers value is.
C5_GradingNeverRaises ==
    \A r \in AttemptReqIds : Handled(attemptReqs[r]) => attemptReqs[r].error # "TypeError"

\* C6: for n > 0, answers right at every position give score n and percentage
\* 100, answers right at no position give score 0 and percentage 0.
C6_AllRightAllWrong ==
    \A r \in AttemptReqIds :
        LET req == attemptReqs[r]
        IN (req.pc \in {"createAttempt", "logActivity"} \/ (req.pc = "done" /\ req.status = 200))
           => LET Q == QuestionsOf(req.assessmentId)
                  right == Matches(Q, req.answers.items)
              IN Len(Q) > 0 =>
                   /\ right = 0..(Len(Q) - 1) =>
                        /\ req.score = Len(Q) /\ req.percentage = Num(100)
                        /\ req.attempt # 0 =>
                              /\ attempts[req.attempt].score = Len(Q)
                              /\ attempts[req.attempt].percentage = 100
                   /\ right = {} =>
                        /\ req.score = 0 /\ req.percentage = Num(0)
                        /\ req.attempt # 0 =>
                              /\ attempts[req.attempt].score = 0
                              /\ attempts[req.attempt].percentage = 0

\* a stored attempt on a non-empty assessment with every position right
C6_Witness ==
    \E r \in AttemptReqIds :
        LET req == attemptReqs[r]
        IN /\ req.status = 200
           /\ Len(QuestionsOf(req.assessmentId)) > 0
           /\ Matches(QuestionsOf(req.assessmentId), req.answers.items)
                = 0..(Len(QuestionsOf(req.assessmentId)) - 1)
           /\ attempts[req.attempt].percentage = 100

\* the requests that got their attempt row stored
Stored == {r \in AttemptReqIds : attemptReqs[r].attempt # 0}

RowOfRequest(req) ==
    [assessmentId |-> req.assessmentId, userId |-> req.user, answers |-> req.answers,
     score |-> req.score, percentage |-> req.percentage.v, timeSpent |-> req.timeSpent]

Completions == {k \in 1..Len(activity) : activity[k].activityType = "assessment_completion"}

\* C14: a submission for an assessment id that does not resolve is answered
\* 404 at once, and neither that step nor any later one of the request writes
\* an attempt row or an activity row.
C14_UnknownAssessmentNotFound ==
    /\ [](\A r \in AttemptReqIds :
            attemptReqs[r].status = 404 => attemptReqs[r].pc = "done" /\ attemptReqs[r].attempt = 0)
    /\ [][\A r \in AttemptReqIds :
            (/\ attemptReqs[r].pc = "idle" /\ attemptReqs'[r].pc # "idle"
             /\ ~AssessmentExists(attemptReqs'[r].assessmentId))
            => /\ attemptReqs'[r].pc = "done" /\ attemptReqs'[r].status = 404
               /\ attempts' = attempts /\ activity' = activity]_vars

\* a request answered 404
C14_Witness == \E r \in AttemptReqIds : attemptReqs[r].status = 404

\* C16: the attempt rows are exactly one per request that got past its insert,
\* the completion entries exactly one per request answered 200, each such
\* request has its own attempt row, and the step that writes the activity
\* entry finds the attempt already stored and adds that one entry only.
C16_OneAttemptOneActivity ==
    /\ [](/\ Len(attempts) = Cardinality(Stored)
          /\ Cardinality(Completions) = Cardinality({r \in AttemptReqIds : attemptReqs[r].status = 200})
          /\ \A r \in AttemptReqIds :
                attemptReqs[r].status = 200
                => /\ attemptReqs[r].attempt \in 1..Len(attempts)
                   /\ attempts[attemptReqs[r].attempt] = RowOfRequest(attemptReqs[r])
                   /\ \A q \in AttemptReqIds \ {r} : attemptReqs[q].attempt # attemptReqs[r].attempt)
    /\ [][\A r \in AttemptReqIds :
            (attemptReqs[r].status # 200 /\ attemptReqs'[r].status = 200)
            => /\ attemptReqs[r].attempt \in 1..Len(attempts)
               /\ attempts' = attempts
               /\ Len(activity') = Len(activity) + 1
               /\ activity'[Len(activity')].userId = attemptReqs[r].user
               /\ activity'[Len(activity')].activityType = "assessment_completion"]_vars

\* two submissions answered 200
C16_Witness ==
    \E p, q \in AttemptReqIds :
        p # q /\ attemptReqs[p].status = 200 /\ attemptReqs[q].status = 200

\* C17: when the activity write fails after the attempt row was stored, the
\* row stays as it was stored, with the score and percentage of the grading.
C17_AttemptStands ==
    \A r \in AttemptReqIds :
        LET req == attemptReqs[r]
        IN (req.pc = "done" /\ req.error = "fault" /\ req.attempt # 0)
           => /\ req.attempt \in 1..Len(attempts)
              /\ attempts[req.attempt] = RowOfRequest(req)

\* a request whose activity write failed after its attempt was stored
C17_Witness ==
    \E r \in AttemptReqIds :
        attemptReqs[r].pc = "done" /\ attemptReqs[r].error = "fault" /\ attemptReqs[r].attempt # 0

\* C18: every submission whose attempt row was stored is answered with success
\* (the stored attempt), also when the activity write after it fails.
C18_StoredAttemptReturned ==
    \A r \in AttemptReqIds :
        (attemptReqs[r].pc = "done" /\ attemptReqs[r].attempt # 0) => attemptReqs[r].status = 200

\* C19: no step changes or removes a stored attempt row, and every request that
\* stored an attempt has a row of its own.
C19_AttemptsImmutable ==
    /\ [](\A p, q \in Stored : p # q => attemptReqs[p].attempt # attemptReqs[q].attempt)
    /\ [][/\ Len(attempts') >= Len(attempts)
          /\ \A k \in 1..Len(attempts) : attempts'[k] = attempts[k]]_vars

\* two stored attempts of one user on one assessment
C19_Witness ==
    \E j, k \in 1..Len(attempts) :
        /\ j < k
        /\ attempts[j].userId = attempts[k].userId
        /\ attempts[j].assessmentId = attempts[k].assessmentId

(***************************************************************************)
(* Rating claims.                                                          *)
(***************************************************************************)
RowsOf(c, u) == {i \in 1..Len(ratings) : ratings[i].contentId = c /\ ratings[i].userId = u}

\* rating requests on content c that the handler has answered, the content
\* being there when they arrived and the store answering every statement
Answered(c) ==
    {r \in RateReqIds : /\ rateReqs[r].pc = "done"
                        /\ rateReqs[r].contentId = c
                        /\ rateReqs[r].onLive
                        /\ rateReqs[r].error # "fault"}

InFlight(c) ==
    {r \in RateReqIds : rateReqs[r].pc \notin {"idle", "done"} /\ rateReqs[r].contentId = c}

\* every rating request on c so far is among the answered ones
Settled(c) ==
    \A r \in RateReqIds :
        (rateReqs[r].pc # "idle" /\ rateReqs[r].contentId = c) => r \in Answered(c)

\* every two of the requests ran one after the other
Sequential(R) == \A p, q \in R : p # q => (p \in rateReqs[q].pred \/ q \in rateReqs[p].pred)

RECURSIVE SumOfRequests(_)
SumOfRequests(R) ==
    IF R = {} THEN 0
    ELSE LET r == CHOOSE x \in R : TRUE
         IN rateReqs[r].rating.v + SumOfRequests(R \ {r})

\* C7: at most one content_ratings row for every (content, user) pair, in
\* every state.
C7_OneRowPerPair == \A c \in ContentIds, u \in Users : Cardinality(RowsOf(c, u)) <= 1

\* two overlapping requests of one user on one content, both executed
C7_Witness ==
    \E p, q \in RateReqIds :
        /\ p # q
        /\ {p, q} \subseteq Answered(rateReqs[p].contentId)
        /\ rateReqs[p].user = rateReqs[q].user
        /\ ~Sequential({p, q})

\* C8: after the same user rated the same content twice in sequence there is
\* exactly one row for the pair, holding the second rating and review, and the
\* aggregates count that one row and carry the second value.
C8_SecondRatingOverwrites ==
    \A p, q \in RateReqIds :
        LET c == rateReqs[q].contentId
            u == rateReqs[q].user
        IN (/\ {p, q} \subseteq Answered(c)
            /\ p \in rateReqs[q].pred
            /\ rateReqs[p].user = u
            /\ Answered(c) = {p, q} /\ Settled(c))
           => /\ Cardinality(RowsOf(c, u)) = 1
              /\ \A i \in RowsOf(c, u) :
                    /\ ratings[i].rating = rateReqs[q].rating.v
                    /\ ratings[i].review = rateReqs[q].review
              /\ content[c].ratingCount = 1
              /\ content[c].rating = rateReqs[q].rating.v

C10_AggregatesAlwaysExact ==
    \A c \in ContentIds :
        (InFlight(c) = {} /\ CountRatings(ratings, c) > 0)
        => /\ content[c].ratingCount = CountRatings(ratings, c)
           /\ content[c].rating =
                 RoundedQuotient(SumRatings(ratings, c), CountRatings(ratings, c))

\* a content with a rating row and no call in progress
C10_Case == \E c \in ContentIds : InFlight(c) = {} /\ CountRatings(ratings, c) > 0

\* no content_ratings row is ever stored
NoRatingStored == ratings = <<>>

\* C11: when two rating calls of different users on one content overlap and
\* both have run to their end, both users' rows are stored and rating and
\* ratingCount are those of the snapshot one of the two calls read.
C11_OverlappingCallsBothCommit ==
    \A p, q \in RateReqIds :
        LET c == rateReqs[p].contentId
        IN (/\ p # q
            /\ Answered(c) = {p, q} /\ Settled(c)
            /\ rateReqs[p].user # rateReqs[q].user
            /\ ~Sequential({p, q}))
           => /\ Cardinality(RowsOf(c, rateReqs[p].user)) = 1
              /\ Cardinality(RowsOf(c, rateReqs[q].user)) = 1
              /\ \E w \in {p, q} :
                    /\ content[c].ratingCount = rateReqs[w].count
                    /\ content[c].rating = RoundAvg(rateReqs[w].avgRating.v, rateReqs[w].count)

\* C12: a content whose rating and ratingCount disagree with its rows is the
\* state the claim starts from.
C12_Case ==
    \E c \in ContentIds :
        \/ content[c].ratingCount # CountRatings(ratings, c)
        \/ content[c].rating # RoundAvg(SumRatings(ratings, c), CountRatings(ratings, c))

\* rating and ratingCount agree with the rows in every state
NeverStale == ~C12_Case

\* a rating as the API defines it: an integer of 1..5
ValidRating(x) == IsInteger(x) /\ x.v \in 1..5

C15_UnknownContentClientError ==
    \A r \in RateReqIds :
        LET req == rateReqs[r]
        IN (req.pc = "done" /\ req.error # "fault" /\ ~content[req.contentId].live)
           => /\ req.status \in 400..499
              /\ CountRatings(ratings, req.contentId) = 0

\* C20: a content starts with rating 0 and ratingCount 0, and a step changes
\* either of them only as the last statement of a rating call, to the rounded
\* mean and the count that call read; the content update changes neither.
C20_AggregatesOnlyRecomputed ==
    /\ [](\A c \in ContentIds :
            ~content[c].live => content[c].rating = 0 /\ content[c].ratingCount = 0)
    /\ [][\A c \in ContentIds :
            /\ (~content[c].live /\ content'[c].live)
               => content'[c].rating = 0 /\ content'[c].ratingCount = 0
            /\ (content[c].live /\ (\/ content'[c].rating # content[c].rating
                                    \/ content'[c].ratingCount # content[c].ratingCount))
               => \E r \in RateReqIds :
                     /\ rateReqs[r].pc = "persist" /\ rateReqs[r].contentId = c
                     /\ rateReqs'[r].status = 200
                     /\ content'[c].ratingCount = rateReqs[r].count
                     /\ content'[c].rating = RoundAvg(rateReqs[r].avgRating.v, rateReqs[r].count)]_vars

\* a content renamed by an update whose body carried rating and ratingCount
C20_Witness ==
    \E c \in ContentIds, body \in PutBodies :
        /\ body.rating # Undefined /\ body.ratingCount # Undefined
        /\ body.title # Undefined /\ content[c].title = body.title
        /\ \A other \in PutBodies : other.title = body.title => other = body

(***************************************************************************)
(* Ranges, analytics, logs, authentication, ownership, profiles.           *)
(***************************************************************************)
\* C27: every stored attempt has 0 <= score <= n and 0 <= percentage <= 100,
\* n being the number of questions of its assessment.
C27_ScoreAndPercentageInRange ==
    \A k \in 1..Len(attempts) :
        /\ 0 <= attempts[k].score
        /\ attempts[k].score <= Len(QuestionsOf(attempts[k].assessmentId))
        /\ 0 <= attempts[k].percentage
        /\ attempts[k].percentage <= 100

\* a stored attempt with a percentage strictly between 0 and 100
C27_Witness ==
    \E k \in 1..Len(attempts) : 0 < attempts[k].percentage /\ attempts[k].percentage < 100

\* the analytics requests that were answered with a rollup
Rolled == {r \in AnalyticsReqIds : analyticsReqs[r].pc = "done" /\ analyticsReqs[r].status = 200}

\* the study_sessions rows of the user among those the request's select saw
SessionsSeen(req) ==
    {i \in 1..req.sessions : studySessions[i].userId = req.user}

\* the attempts of the user among those the request's select saw
AttemptsSeen(req) ==
    {k \in 1..req.attempts : attempts[k].userId = req.user}

RECURSIVE TotalDuration(_)
TotalDuration(I) ==
    IF I = {} THEN 0
    ELSE LET i == CHOOSE x \in I : TRUE IN studySessions[i].duration + TotalDuration(I \ {i})

RECURSIVE TotalPercentage(_)
TotalPercentage(K) ==
    IF K = {} THEN 0
    ELSE LET k == CHOOSE x \in K : TRUE IN attempts[k].percentage + TotalPercentage(K \ {k})

\* C21: the rollup of a user has totalStudyTime the sum of the durations of the
\* user's study sessions, avgScore the rounded mean and bestScore the maximum of
\* the percentages of the user's attempts, both 0 without attempts.
C21_RollupSumsMeanMax ==
    \A r \in Rolled :
        LET req == analyticsReqs[r]
            I == SessionsSeen(req)
            K == AttemptsSeen(req)
        IN /\ req.result.totalStudyTime = TotalDuration(I)
           /\ K = {} => req.result.avgScore = 0 /\ req.result.bestScore = 0
           /\ K # {} =>
                 /\ req.result.avgScore = RoundedQuotient(TotalPercentage(K), Cardinality(K))
                 /\ \E k \in K : attempts[k].percentage = req.result.bestScore
                 /\ \A k \in K : attempts[k].percentage <= req.result.bestScore

\* sessions of 120 minutes in all and the percentages 80, 90, 70 rolled up to
\* 120, 80, 90
C21_Witness ==
    \E r \in Rolled :
        /\ {attempts[k].percentage : k \in AttemptsSeen(analyticsReqs[r])} = {80, 90, 70}
        /\ Cardinality(AttemptsSeen(analyticsReqs[r])) = 3
        /\ analyticsReqs[r].result.totalStudyTime = 120
        /\ analyticsReqs[r].result.avgScore = 80
        /\ analyticsReqs[r].result.bestScore = 90

\* C22: no step of an analytics request changes a stored table, and two
\* requests of one user that saw the same rows at the same time got the same
\* rollup.
C22_RollupIsPureRead ==
    /\ [](\A p, q \in Rolled :
            (/\ analyticsReqs[p].user = analyticsReqs[q].user
             /\ analyticsReqs[p].sessions = analyticsReqs[q].sessions
             /\ analyticsReqs[p].attempts = analyticsReqs[q].attempts
             /\ analyticsReqs[p].today = analyticsReqs[q].today)
            => analyticsReqs[p].result = analyticsReqs[q].result)
    /\ [][analyticsReqs' # analyticsReqs
          => UNCHANGED <<assessments, attempts, activity, content, ratings,
                         studySessions, profiles>>]_vars

\* two rollups of one user over the same sessions at the same time, the
\* sessions being some
C22_Witness ==
    \E p, q \in Rolled :
        /\ p # q
        /\ analyticsReqs[p].user = analyticsReqs[q].user
        /\ analyticsReqs[p].sessions = analyticsReqs[q].sessions
        /\ analyticsReqs[p].today = analyticsReqs[q].today
        /\ analyticsReqs[p].result.totalStudyTime > 0

\* C23: studyStreak is 7 when a study session of the user is no older than a
\* day at the time of the request, and 0 otherwise.
C23_StreakIsSevenOrZero ==
    \A r \in Rolled :
        LET req == analyticsReqs[r]
            recent == {i \in SessionsSeen(req) : req.today - studySessions[i].createdAt <= Day}
        IN /\ req.result.studyStreak \in {0, 7}
           /\ req.result.studyStreak = 7 <=> recent # {}

\* a rollup with streak 7 and a later one of the same user, whose sessions
\* are all older than a day, with streak 0
C23_Witness ==
    \E p, q \in Rolled :
        /\ analyticsReqs[p].user = analyticsReqs[q].user
        /\ analyticsReqs[p].result.studyStreak = 7
        /\ analyticsReqs[q].result.studyStreak = 0
        /\ SessionsSeen(analyticsReqs[q]) # {}

C28_RowsCarryRequester ==
    /\ \A i \in 1..Len(studySessions) : studySessions[i].userId = studySessions[i].by
    /\ \A r \in Stored :
          attemptReqs[r].attempt \in 1..Len(attempts)
          => attempts[attemptReqs[r].attempt].userId = attemptReqs[r].user

\* a request of the table `reqs` that came without an authenticated user
Unauthenticated(reqs, r) == reqs[r].pc # "idle" /\ reqs[r].user = Anonymous

\* C25: an attempt, rating or analytics request without an authenticated user
\* is answered 401 in the step that takes it in, that step changes no table,
\* and no later step belongs to the request.
C25_AuthenticationEnforced ==
    /\ [](/\ \A r \in AttemptReqIds :
               Unauthenticated(attemptReqs, r)
               => /\ attemptReqs[r].pc = "done" /\ attemptReqs[r].status = 401
                  /\ attemptReqs[r].attempt = 0
          /\ \A r \in RateReqIds :
               Unauthenticated(rateReqs, r)
               => rateReqs[r].pc = "done" /\ rateReqs[r].status = 401
          /\ \A r \in AnalyticsReqIds :
               Unauthenticated(analyticsReqs, r)
               => /\ analyticsReqs[r].pc = "done" /\ analyticsReqs[r].status = 401
                  /\ analyticsReqs[r].result = NoRollup
          /\ \A k \in 1..Len(attempts) : attempts[k].userId # Anonymous
          /\ \A k \in 1..Len(ratings) : ratings[k].userId # Anonymous
          /\ \A k \in 1..Len(activity) : activity[k].userId # Anonymous)
    /\ [][(\/ \E r \in AttemptReqIds :
                 attemptReqs[r].pc = "idle" /\ Unauthenticated(attemptReqs', r)
           \/ \E r \in RateReqIds :
                 rateReqs[r].pc = "idle" /\ Unauthenticated(rateReqs', r)
           \/ \E r \in AnalyticsReqIds :
                 analyticsReqs[r].pc = "idle" /\ Unauthenticated(analyticsReqs', r))
          => UNCHANGED <<assessments, attempts, activity, content, ratings,
                         studySessions, profiles>>]_vars

\* each of the three endpoints has answered 401, with an assessment, a content
\* and a study session stored
C25_Witness ==
    /\ attemptReqs[1].status = 401 /\ rateReqs[1].status = 401 /\ analyticsReqs[1].status = 401
    /\ Len(assessments) > 0 /\ Len(studySessions) > 0
    /\ \E c \in ContentIds : content[c].live

\* C26: an update or deletion of a content by a user who did not upload it, or
\* of a content id without a row, is answered 403 and changes neither the
\* content row nor its ratings nor its file; a step that renames or removes a
\* content or its file or its ratings is a request of the uploader answered 200.
C26_OwnershipEnforced ==
    [][/\ contentOp' # contentOp
          => /\ contentOp'.status = 403
                <=> ~(/\ content[contentOp'.contentId].live
                      /\ content[contentOp'.contentId].uploadedBy = contentOp'.user)
             /\ contentOp'.status = 403 => UNCHANGED <<content, ratings>>
       /\ \A c \in ContentIds :
            (/\ content[c].live
             /\ \/ content'[c].title # content[c].title
                \/ content'[c].live # content[c].live
                \/ content'[c].file # content[c].file
                \/ content'[c].uploadedBy # content[c].uploadedBy
                \/ CountRatings(ratings', c) < CountRatings(ratings, c))
            => /\ contentOp'.contentId = c
               /\ contentOp'.user = content[c].uploadedBy
               /\ contentOp'.status = 200]_vars

\* the deletion of an existing content by a user who did not upload it was
\* answered 403, and the row and the file are there
C26_Witness ==
    /\ contentOp.op = "DELETE" /\ contentOp.status = 403
    /\ contentOp.contentId \in ContentIds
    /\ content[contentOp.contentId].live /\ content[contentOp.contentId].file
    /\ content[contentOp.contentId].uploadedBy # contentOp.user

RowsKept(rows, Keep(_)) == SelectSeq(rows, Keep)

\* C29: a statement of rateContent called by user u on content c leaves
\* unchanged the content_ratings rows of every other content, the rows of
\* other users on c, and the row (rating and ratingCount with it) of every
\* other content.
C29_RateContentFrame ==
    [][\A r \in RateReqIds :
         (rateReqs[r].pc \in {"upsert", "aggregate", "persist"} /\ rateReqs'[r] # rateReqs[r])
         => LET c == rateReqs[r].contentId
                u == rateReqs[r].user
                OtherContent(row) == row.contentId # c
                OtherUser(row) == row.contentId = c /\ row.userId # u
            IN /\ RowsKept(ratings', OtherContent) = RowsKept(ratings, OtherContent)
               /\ RowsKept(ratings', OtherUser) = RowsKept(ratings, OtherUser)
               /\ \A d \in ContentIds \ {c} : content'[d] = content[d]]_vars

\* a rateContent call on one of two existing contents has ended
C29_Witness ==
    \E r \in RateReqIds :
        /\ rateReqs[r].pc = "done" /\ rateReqs[r].status = 500 /\ rateReqs[r].error = "rejected"
        /\ rateReqs[r].onLive
        /\ \A d \in ContentIds : content[d].live

ProfilesOf(u) == {i \in 1..Len(profiles) : profiles[i].userId = u}

\* C30: after any sequence and interleaving of POST /api/profile requests a
\* user has at most one user_profiles row.
C30_OneProfilePerUser == \A u \in Users : Cardinality(ProfilesOf(u)) <= 1

====
